---- MODULE Spec2Model ----
(***************************************************************************)
(* Seat reservation and booking core of the cinema ticketing API.          *)
(*                                                                         *)
(* The durable store is two ledgers: seat_reservation rows and ticket      *)
(* rows.  Every handler runs in its own database session; the store sees   *)
(* it as one transaction that ends with commit or rollback.  The clock     *)
(* (datetime.utcnow) is read several times inside one handler and may      *)
(* advance between two reads.  Handlers that read rows (or the clock)      *)
(* before they hold a lock and write them later are modelled in two        *)
(* steps, with the request parked in `inflight` between the steps.         *)
(***************************************************************************)
EXTENDS Integers, Sequences, FiniteSets, TLC

\* ---------------------------------------------------------------- bounds
MaxTicks == 2       \* ticks the clock makes
MaxRes == 2         \* rows the reservation ledger may hold
MaxElapse == 1      \* ticks the clock may make inside one handler

\* ------------------------------------------------------- program constants
RESERVATION_DURATION_MINUTES == 5

\* The clock is in minutes and advances one hold duration per tick, so that a
\* reading falls before, on or after an expires_at.
TickMinutes == RESERVATION_DURATION_MINUTES
MaxTime == MaxTicks * TickMinutes

\* ---------------------------------------------------------------- catalog
UserIds == {1, 2}
SeatIds == {1, 2, 3}
ScreeningIds == {1}
NoPayment == "none"
PaymentIds == {"PAY-1", "PAY-2"}

\* Seat rows: seats 1 and 2 are in room 1, seat 3 in room 2.
Seat == [id \in SeatIds |-> [room_id |-> IF id = 3 THEN 2 ELSE 1]]

\* Movie rows at start-up.
MovieIds == {1}

\* Screening rows, all in room 1 and all of movie 1.  Screening 1 (the one the
\* requests of the model name) plays after the end of the clock; screening 2
\* has been played before the clock starts; the movie of screening 3 is not
\* released.
Screening ==
  [id \in {1, 2, 3} |->
     [movie_id |-> 1, room_id |-> 1, price |-> 15,
      screening_time |-> IF id = 2 THEN -1 ELSE MaxTime + 1,
      coming_soon |-> (id = 3)]]

\* Seat sets a request may name (seat_ids, normalised by get_seat_ids).
SeatRequests == {{1}, {1, 2}}

VARIABLES
  now,            \* datetime.utcnow()
  reservations,   \* seat_reservation table: row id = index
  tickets,        \* ticket table: row id = index
  inflight,       \* requests between their read and their write
  movies,         \* movie table: ids of the rows that exist
  txns,           \* open transactions: their seat locks and their position
  reaper          \* BackgroundTaskManager: its flag and its cleanup loops

vars == <<now, reservations, tickets, inflight, movies, txns, reaper>>

\* Screening rows that exist: delete_movie removes those of its movie.
ScreeningRows == {id \in DOMAIN Screening : Screening[id].movie_id \in movies}

\* ------------------------------------------------------------ row helpers
\* Ascending list of a set of seat ids (rows are inserted in request order).
RECURSIVE SortedSeq(_)
SortedSeq(S) ==
  IF S = {} THEN <<>>
  ELSE LET m == CHOOSE x \in S : \A y \in S : x <= y
       IN <<m>> \o SortedSeq(S \ {m})

\* A status write that is lost.
SetStatus_Noop(res, ids, st) == res

SetStatus(res, ids, st) ==
  [i \in DOMAIN res |-> IF i \in ids THEN [res[i] EXCEPT !.status = st] ELSE res[i]]

\* ------------------------------------------- cleanup_expired_reservations
\* A cleanup query that lets a hold lapse one hold duration late.
ExpiredActive_Grace(res, t) ==
  {i \in DOMAIN res :
     res[i].status = "active" /\ res[i].expires_at + RESERVATION_DURATION_MINUTES < t}

\* A cleanup query without the status filter.
ExpiredActive_AnyStatus(res, t) == {i \in DOMAIN res : res[i].expires_at < t}

\* Rows the cleanup query selects at clock reading t.
ExpiredActive(res, t) ==
  {i \in DOMAIN res : res[i].status = "active" /\ res[i].expires_at < t}

cleanup_expired_reservations(res, t) == SetStatus(res, ExpiredActive(res, t), "expired")

\* --------------------------------------------- partial unique index (DDL)
\* ix_seat_reservation_active_unique: one row per (screening_id, seat_id)
\* among the rows whose status is active or booked.
IndexedRows(res) == {i \in DOMAIN res : res[i].status \in {"active", "booked"}}

\* A ledger without the index: no flush is ever refused.
UniqueIndexViolated_NoIndex(res) == FALSE

UniqueIndexViolated(res) ==
  \E i, j \in IndexedRows(res) :
    /\ i # j
    /\ res[i].screening_id = res[j].screening_id
    /\ res[i].seat_id = res[j].seat_id

\* ------------------------------------------------------------ reserve_seats
\* Tickets that block a hold: the query filters on status confirmed/booked.
BlockingTickets(tix, s, seats) ==
  {i \in DOMAIN tix :
     /\ tix[i].screening_id = s
     /\ tix[i].seat_id \in seats
     /\ tix[i].status \in {"confirmed", "booked"}}

\* Holds of other users that block: active and expiring after t.
OtherActive(res, u, s, seats, t) ==
  {i \in DOMAIN res :
     /\ res[i].screening_id = s
     /\ res[i].seat_id \in seats
     /\ res[i].status = "active"
     /\ res[i].expires_at > t
     /\ res[i].user_id # u}

\* The caller's own active rows on the seats, whatever their expiry.
OwnActive(res, u, s, seats) ==
  {i \in DOMAIN res :
     /\ res[i].screening_id = s
     /\ res[i].seat_id \in seats
     /\ res[i].user_id = u
     /\ res[i].status = "active"}

\* Rows created without the hold duration added to the clock reading.
NewReservations_NoHold(u, s, seats, t) ==
  LET order == SortedSeq(seats)
  IN [k \in 1..Len(order) |->
        [screening_id |-> s, seat_id |-> order[k], user_id |-> u,
         reserved_at |-> t, expires_at |-> t, status |-> "active"]]

\* Rows whose expiry is computed seat by seat, each a minute after the last.
NewReservations_PerSeat(u, s, seats, t) ==
  LET order == SortedSeq(seats)
  IN [k \in 1..Len(order) |->
        [screening_id |-> s, seat_id |-> order[k], user_id |-> u,
         reserved_at |-> t, expires_at |-> t + RESERVATION_DURATION_MINUTES + k - 1,
         status |-> "active"]]

NewReservations(u, s, seats, t) ==
  LET order == SortedSeq(seats)
  IN [k \in 1..Len(order) |->
        [screening_id |-> s, seat_id |-> order[k], user_id |-> u,
         reserved_at |-> t, expires_at |-> t + RESERVATION_DURATION_MINUTES,
         status |-> "active"]]

\* The seat validation loop stops at the first seat of the request (taken in
\* ascending order) that does not exist or is not in the screening's room.
FirstBadSeat(s, seats) ==
  LET bad == {x \in seats :
                x \notin SeatIds \/ Seat[x].room_id # Screening[s].room_id}
  IN IF bad = {} THEN {} ELSE {CHOOSE x \in bad : \A y \in bad : x <= y}

\* reserve_seats as a function of the store: the clock is read at tc (cleanup),
\* tv (past-screening check), tk (conflict check) and tn (row creation).
\* Result: [result, res, ids]; res is the committed ledger (the old one after
\* a rollback or an error raised before any commit).
\* A reserve_seats whose failures keep what the session had flushed: the
\* cleanup, and the cancellation of the caller's own rows.
reserve_seats_NoRollback(res, tix, u, s, seats, tc, tv, tk, tn) ==
  LET cleaned == cleanup_expired_reservations(res, tc)
      fail(code) == [result |-> code, res |-> cleaned, ids |-> {}]
  IN IF s \notin ScreeningRows THEN fail("not_found")
     ELSE IF Screening[s].coming_soon THEN fail("invalid_request")
     ELSE IF Screening[s].screening_time < tv THEN fail("invalid_request")
     ELSE IF FirstBadSeat(s, seats) # {}
       THEN fail(IF FirstBadSeat(s, seats) \subseteq SeatIds
                   THEN "invalid_request" ELSE "not_found")
     ELSE IF BlockingTickets(tix, s, seats) # {} THEN fail("already_booked")
     ELSE IF OtherActive(cleaned, u, s, seats, tk) # {} THEN fail("reserved_by_others")
     ELSE LET cancelled == SetStatus(cleaned, OwnActive(cleaned, u, s, seats), "cancelled")
              flushed == cancelled \o NewReservations(u, s, seats, tn)
          IN IF UniqueIndexViolated(flushed)
               THEN [result |-> "integrity_conflict", res |-> cancelled, ids |-> {}]
             ELSE [result |-> "ok", res |-> flushed,
                   ids |-> (Len(res) + 1)..(Len(res) + Cardinality(seats))]

reserve_seats(res, tix, u, s, seats, tc, tv, tk, tn) ==
  LET cleaned == cleanup_expired_reservations(res, tc)
      fail(code) == [result |-> code, res |-> res, ids |-> {}]
  IN IF s \notin ScreeningRows THEN fail("not_found")
     ELSE IF Screening[s].coming_soon THEN fail("invalid_request")
     ELSE IF Screening[s].screening_time < tv THEN fail("invalid_request")
     ELSE IF FirstBadSeat(s, seats) # {}
       THEN fail(IF FirstBadSeat(s, seats) \subseteq SeatIds
                   THEN "invalid_request" ELSE "not_found")
     ELSE IF BlockingTickets(tix, s, seats) # {} THEN fail("already_booked")
     ELSE IF OtherActive(cleaned, u, s, seats, tk) # {} THEN fail("reserved_by_others")
     ELSE LET cancelled == SetStatus(cleaned, OwnActive(cleaned, u, s, seats), "cancelled")
              flushed == cancelled \o NewReservations(u, s, seats, tn)
          IN IF UniqueIndexViolated(flushed) THEN fail("integrity_conflict")
             ELSE [result |-> "ok", res |-> flushed,
                   ids |-> (Len(res) + 1)..(Len(res) + Cardinality(seats))]

\* ------------------------------------------------------ cancel_reservations
\* A cancel query without the owner filter.
CancelSelect_AnyUser(res, u, s, seats) ==
  {i \in DOMAIN res :
     /\ res[i].screening_id = s
     /\ res[i].status = "active"
     /\ (seats # {} => res[i].seat_id \in seats)}

\* Rows the cancel query selects: the caller's active rows of the screening,
\* narrowed to seat_ids only when seat_ids is truthy (None and [] select all).
CancelSelect(res, u, s, seats) ==
  {i \in DOMAIN res :
     /\ res[i].screening_id = s
     /\ res[i].user_id = u
     /\ res[i].status = "active"
     /\ (seats # {} => res[i].seat_id \in seats)}

cancel_reservations(res, u, s, seats) ==
  SetStatus(res, CancelSelect(res, u, s, seats), "cancelled")

\* POST /seat-reservations/cancel: a count of 0 is answered with 404.
cancel_specific_reservations(res, u, s, seats) ==
  LET ids == CancelSelect(res, u, s, seats)
  IN IF ids = {}
       THEN [result |-> "not_found", res |-> res, count |-> 0]
       ELSE [result |-> "ok", res |-> cancel_reservations(res, u, s, seats),
             count |-> Cardinality(ids)]

\* -------------------------------------------------------- extend_reservation
\* Rows the extend query selects at clock reading t (read before the locks).
ExtendSelect(res, u, s, seats, t) ==
  {i \in DOMAIN res :
     /\ res[i].screening_id = s
     /\ res[i].seat_id \in seats
     /\ res[i].user_id = u
     /\ res[i].status = "active"
     /\ res[i].expires_at > t}

\* An extend that renews whichever of the requested holds are valid.
extend_reservation_Partial(res, u, s, seats, minutes, t) ==
  LET sel == ExtendSelect(res, u, s, seats, t)
  IN [result |-> "ok",
      res |-> [i \in DOMAIN res |->
                 IF i \in sel
                   THEN [res[i] EXCEPT !.expires_at = @ + minutes]
                   ELSE res[i]],
      ids |-> sel]

extend_reservation(res, u, s, seats, minutes, t) ==
  LET sel == ExtendSelect(res, u, s, seats, t)
  IN IF Cardinality(sel) # Cardinality(seats)
       THEN [result |-> "invalid_request", res |-> res, ids |-> {}]
       ELSE [result |-> "ok",
             res |-> [i \in DOMAIN res |->
                        IF i \in sel
                          THEN [res[i] EXCEPT !.expires_at = @ + minutes]
                          ELSE res[i]],
             ids |-> sel]

\* ---------------------------------------------------- get_seat_availability
\* current_user_id = None (the anonymous endpoint), and the None of the
\* reserved_by and expires_at fields.
Anonymous == 0
NoValue == -1

RoomSeats(s) == {x \in SeatIds : Seat[x].room_id = Screening[s].room_id}

\* Seats with a ticket the availability query counts: confirmed or booked.
BookedSeatIds(tix, s) ==
  {tix[i].seat_id :
     i \in {j \in DOMAIN tix :
              tix[j].screening_id = s /\ tix[j].status \in {"confirmed", "booked"}}}

\* An availability query that does not look at expires_at.
ActiveReservations_NoExpiry(res, s, t) ==
  {i \in DOMAIN res : res[i].screening_id = s /\ res[i].status = "active"}

\* Rows the availability query selects at clock reading t.
ActiveReservations(res, s, t) ==
  {i \in DOMAIN res :
     /\ res[i].screening_id = s
     /\ res[i].status = "active"
     /\ res[i].expires_at > t}

\* The snapshot: the cleanup runs at tc in the handler's session (flushed,
\* never committed), the reservation query reads the clock at tq.  The
\* unique index leaves at most one selected row per seat.
get_seat_availability(res, tix, s, requester, tc, tq) ==
  LET cleaned == cleanup_expired_reservations(res, tc)
      booked == BookedSeatIds(tix, s)
      active == ActiveReservations(cleaned, s, tq)
      on(x) == {i \in active : cleaned[i].seat_id = x}
      free == [status |-> "available", reserved_by |-> NoValue,
               is_mine |-> FALSE, expires_at |-> NoValue]
  IN [x \in RoomSeats(s) |->
        IF x \in booked THEN [free EXCEPT !.status = "booked"]
        ELSE IF on(x) # {}
          THEN LET r == cleaned[CHOOSE i \in on(x) : \A j \in on(x) : j <= i]
                   mine == requester # Anonymous /\ r.user_id = requester
               IN [status |-> IF mine THEN "reserved_by_me" ELSE "reserved",
                   reserved_by |-> r.user_id, is_mine |-> mine,
                   expires_at |-> r.expires_at]
        ELSE free]

\* ------------------------------------------- book_tickets_from_reservation
\* The idempotency check: confirmed tickets of the caller on the seats.
ExistingTickets(tix, u, s, seats) ==
  {i \in DOMAIN tix :
     /\ tix[i].screening_id = s
     /\ tix[i].seat_id \in seats
     /\ tix[i].user_id = u
     /\ tix[i].status = "confirmed"}

\* The caller's reservations that can be converted at clock reading t.
ValidReservations(res, u, s, seats, t) ==
  {i \in DOMAIN res :
     /\ res[i].screening_id = s
     /\ res[i].seat_id \in seats
     /\ res[i].user_id = u
     /\ res[i].status = "active"
     /\ res[i].expires_at > t}

RECURSIVE SortedIds(_)
SortedIds(S) ==
  IF S = {} THEN <<>>
  ELSE LET m == CHOOSE x \in S : \A y \in S : x <= y
       IN <<m>> \o SortedIds(S \ {m})

\* Tickets created in the model's default status instead of confirmed.
NewTickets_Pending(res, valid, u, s, k) ==
  LET order == SortedIds(valid)
  IN [n \in 1..Len(order) |->
        [user_id |-> u, screening_id |-> s, seat_id |-> res[order[n]].seat_id,
         price |-> Screening[s].price, status |-> "pending", payment_id |-> k]]

NewTickets(res, valid, u, s, k) ==
  LET order == SortedIds(valid)
  IN [n \in 1..Len(order) |->
        [user_id |-> u, screening_id |-> s, seat_id |-> res[order[n]].seat_id,
         price |-> Screening[s].price, status |-> "confirmed", payment_id |-> k]]

\* Result: [result, res, tix, ids].  dbError is a failure of the store inside
\* the try block (the commit raises): everything is rolled back.
\* The part of the handler from its lock statement on.
book_under_lock(res, tix, u, s, seats, k, t, dbError) ==
  LET valid == ValidReservations(res, u, s, seats, t)
      fail(code) == [result |-> code, res |-> res, tix |-> tix, ids |-> {}]
  IN IF Cardinality(valid) # Cardinality(seats) THEN fail("invalid_request")
     ELSE IF s \notin ScreeningRows THEN fail("not_found")
     ELSE IF dbError THEN fail("server_error")
     ELSE [result |-> "ok",
           res |-> SetStatus(res, valid, "booked"),
           tix |-> tix \o NewTickets(res, valid, u, s, k),
           ids |-> (Len(tix) + 1)..(Len(tix) + Cardinality(valid))]

\* The handler when another transaction commits while it waits for its seat
\* locks: the idempotency query, which precedes the lock statement, has read
\* the ticket ledger tix0 of before; the reservation query and the writes that
\* follow the lock statement work on res and tix.
book_tickets_from_reservation_waiting(tix0, res, tix, u, s, seats, k, t, dbError) ==
  LET existing == ExistingTickets(tix0, u, s, seats)
  IN IF k # NoPayment /\ existing # {} /\ Cardinality(existing) = Cardinality(seats)
       THEN [result |-> "ok", res |-> res, tix |-> tix, ids |-> existing]
       ELSE book_under_lock(res, tix, u, s, seats, k, t, dbError)

book_tickets_from_reservation(res, tix, u, s, seats, k, t, dbError) ==
  book_tickets_from_reservation_waiting(tix, res, tix, u, s, seats, k, t, dbError)

\* ------------------------------------------------------------- book_tickets
\* reserve_seats, then book_tickets_from_reservation without a payment id; a
\* failed booking step cancels the caller's reservations on the seats.
\* book_tickets without the compensating cancel of a failed booking step.
book_tickets_NoCompensation(res, tix, u, s, seats, tc, tk, tn, tb, dbError) ==
  LET r == reserve_seats(res, tix, u, s, seats, tc, tc, tk, tn)
  IN IF r.result # "ok"
       THEN [result |-> r.result, res |-> r.res, tix |-> tix, ids |-> {}]
       ELSE LET b == book_tickets_from_reservation(r.res, tix, u, s, seats,
                                                   NoPayment, tb, dbError)
            IN IF b.result = "ok" THEN b
               ELSE [result |-> b.result, res |-> r.res, tix |-> tix, ids |-> {}]

book_tickets(res, tix, u, s, seats, tc, tk, tn, tb, dbError) ==
  LET r == reserve_seats(res, tix, u, s, seats, tc, tc, tk, tn)
  IN IF r.result # "ok"
       THEN [result |-> r.result, res |-> r.res, tix |-> tix, ids |-> {}]
       ELSE LET b == book_tickets_from_reservation(r.res, tix, u, s, seats,
                                                   NoPayment, tb, dbError)
            IN IF b.result = "ok" THEN b
               ELSE [result |-> b.result,
                     res |-> cancel_reservations(r.res, u, s, seats),
                     tix |-> tix, ids |-> {}]

SetTicketStatus(tix, ids, st) ==
  [i \in DOMAIN tix |-> IF i \in ids THEN [tix[i] EXCEPT !.status = st] ELSE tix[i]]

\* -------------------------------------------------- routers/ticket.py rows
\* cancel_ticket, confirm_payment and update_ticket_status on one ticket row.
\* Result: [result, tix].
\* A cancel_ticket without the owner check.
cancel_ticket_AnyUser(tix, tid, u) ==
  IF tid \notin DOMAIN tix THEN [result |-> "not_found", tix |-> tix]
  ELSE IF tix[tid].status = "cancelled" THEN [result |-> "invalid_request", tix |-> tix]
  ELSE [result |-> "ok", tix |-> SetTicketStatus(tix, {tid}, "cancelled")]

cancel_ticket(tix, tid, u) ==
  IF tid \notin DOMAIN tix THEN [result |-> "not_found", tix |-> tix]
  ELSE IF tix[tid].user_id # u THEN [result |-> "forbidden", tix |-> tix]
  ELSE IF tix[tid].status = "cancelled" THEN [result |-> "invalid_request", tix |-> tix]
  ELSE [result |-> "ok", tix |-> SetTicketStatus(tix, {tid}, "cancelled")]

\* A confirmation that does not look at the status of the ticket.
confirm_payment_AnyStatus(tix, tid, u) ==
  IF tid \notin DOMAIN tix THEN [result |-> "not_found", tix |-> tix]
  ELSE IF tix[tid].user_id # u THEN [result |-> "forbidden", tix |-> tix]
  ELSE [result |-> "ok", tix |-> SetTicketStatus(tix, {tid}, "confirmed")]

confirm_payment(tix, tid, u) ==
  IF tid \notin DOMAIN tix THEN [result |-> "not_found", tix |-> tix]
  ELSE IF tix[tid].user_id # u THEN [result |-> "forbidden", tix |-> tix]
  ELSE IF tix[tid].status = "confirmed" THEN [result |-> "ok", tix |-> tix]
  ELSE IF tix[tid].status # "pending" THEN [result |-> "state_conflict", tix |-> tix]
  ELSE [result |-> "ok", tix |-> SetTicketStatus(tix, {tid}, "confirmed")]

TicketStatuses == {"pending", "confirmed", "cancelled"}

update_ticket_status(tix, tid, st) ==
  IF tid \notin DOMAIN tix THEN [result |-> "not_found", tix |-> tix]
  ELSE IF st \notin TicketStatuses THEN [result |-> "invalid_request", tix |-> tix]
  ELSE [result |-> "ok", tix |-> SetTicketStatus(tix, {tid}, st)]

\* ------------------------------------------------------------------ clock
\* Readings the clock can give later in a handler whose previous reading
\* was t0: the handler as a whole takes at most MaxElapse.
ClockReadings == {n * TickMinutes : n \in 0..MaxTicks}
Later(t0) == {t \in ClockReadings : t >= t0 /\ t <= now + MaxElapse * TickMinutes}
\* Readings a handler took before it waited for its locks.
Earlier == {t \in ClockReadings : t <= now /\ t >= now - MaxElapse * TickMinutes}

\* Cap on expires_at, to keep repeated extensions finite.
MaxExpiry == MaxTime + RESERVATION_DURATION_MINUTES
AdditionalMinutes == {5}
TicketRowIds == 1..MaxRes

\* A request parked between its unlocked SELECT and its UPDATE by primary key.
InflightRequest(op, ids) == [op |-> op, ids |-> ids]

\* Requests that may be parked at the same time.
MaxInflight == 1

\* ------------------------------------------------------------- seat locks
\* Transactions that may be open at the same time.
TxnIds == {1, 2}

\* The handlers that lock seat rows with SELECT ... FOR UPDATE.
LockingOps == {"reserve", "extend", "book"}

\* Seat lists of the requests that lock (seats of room 1).
LockRequests == {{1}, {2}, {1, 2}}

\* select(Seat).where(Seat.id.in_(seat_ids)).with_for_update() has no ORDER
\* BY: the rows are locked one by one in the order in which the scan the
\* planner chose returns them, which is any order of the seats.
ScanOrders(seats) ==
  {o \in UNION {[1..n -> seats] : n \in 0..Cardinality(seats)} :
     /\ Len(o) = Cardinality(seats)
     /\ \A i, j \in DOMAIN o : i # j => o[i] # o[j]}

IdleTxn == [op |-> "idle", pc |-> "idle", order |-> <<>>, held |-> 0]

\* Seats a transaction has locked, and the seat it locks next.
HeldSeats(tx) == {tx.order[i] : i \in 1..tx.held}
NextSeat(tx) == tx.order[tx.held + 1]

\* t waits for a seat lock that another transaction holds.
WaitsFor(tt, t, o) ==
  /\ t # o
  /\ tt[t].pc = "lock"
  /\ NextSeat(tt[t]) \in HeldSeats(tt[o])

\* ------------------------------------------------- BackgroundTaskManager
\* Calls of start_cleanup_task (each one a coroutine of its own).
LoopIds == {1, 2, 3}

\* start_cleanup_task(interval_minutes=1)
IntervalMinutes == 1

\* A call not made yet.  pc: none, cleanup (in cleanup_expired_reservations),
\* sleeping (in asyncio.sleep until wake), done (returned or cancelled);
\* stopped: stop_cleanup_task was called while the loop was running.
NoLoop == [pc |-> "none", wake |-> 0, stopped |-> FALSE]

LiveLoops(rp) == {l \in LoopIds : rp.loops[l].pc \in {"cleanup", "sleeping"}}

\* ---------------------------------------------------------------- actions
Init ==
  /\ now = 0
  /\ reservations = <<>>
  /\ tickets = <<>>
  /\ inflight = {}
  /\ movies = MovieIds
  /\ txns = [t \in TxnIds |-> IdleTxn]
  /\ reaper = [is_running |-> FALSE, loops |-> [l \in LoopIds |-> NoLoop]]

Tick ==
  /\ now + TickMinutes <= MaxTime
  /\ now' = now + TickMinutes
  /\ UNCHANGED <<reservations, tickets, inflight, movies, txns, reaper>>

\* POST /seat-reservations/reserve, on a ledger that may grow to cap rows
Reserve(u, s, seats, cap) ==
  /\ \E tk \in Later(now) : \E tn \in Later(tk) :
       LET r == reserve_seats(reservations, tickets, u, s, seats, now, now, tk, tn)
       IN /\ Len(r.res) <= cap
          /\ reservations' = r.res
          /\ now' = tn
  /\ UNCHANGED <<tickets, inflight, movies, txns, reaper>>

ReserveSeats(u, s, seats) == Reserve(u, s, seats, MaxRes)

\* POST /seat-reservations/toggle
toggle_seat_reservation(res, tix, u, s, seats, t, tk, tn) ==
  IF ExtendSelect(res, u, s, seats, t) # {}
    THEN [action |-> "unreserved", result |-> "ok",
          res |-> cancel_reservations(res, u, s, seats)]
    ELSE LET r == reserve_seats(res, tix, u, s, seats, t, t, tk, tn)
         IN [action |-> "reserved", result |-> r.result, res |-> r.res]

ToggleSeat(u, s, seats) ==
  /\ \E tk \in Later(now) : \E tn \in Later(tk) :
       LET r == toggle_seat_reservation(reservations, tickets, u, s, seats, now, tk, tn)
       IN /\ Len(r.res) <= MaxRes
          /\ reservations' = r.res
          /\ now' = IF r.action = "reserved" THEN tn ELSE now
  /\ UNCHANGED <<tickets, inflight, movies, txns, reaper>>

\* POST /seat-reservations/extend: current_time is read before the seat locks
\* are waited for, the rows are read and written under the locks.
ExtendReservations(u, s, seats, minutes) ==
  \E t \in Earlier :
    LET r == extend_reservation(reservations, u, s, seats, minutes, t)
    IN /\ \A i \in r.ids : reservations[i].expires_at + minutes <= MaxExpiry
       /\ reservations' = r.res
       /\ UNCHANGED <<now, tickets, inflight, movies, txns, reaper>>

\* POST /seat-reservations/cancel and DELETE /seat-reservations/cancel/{id}
\* (seats = {} is seat_ids = None): the rows are selected without a lock ...
CancelBegin(u, s, seats) ==
  LET ids == CancelSelect(reservations, u, s, seats)
  IN /\ ids # {}
     /\ Cardinality(inflight) < MaxInflight
     /\ inflight' = inflight \cup {InflightRequest("cancel", ids)}
     /\ UNCHANGED <<now, reservations, tickets, movies, txns, reaper>>

\* ... and written by primary key at the commit.
CancelFinish(req) ==
  /\ req \in inflight
  /\ req.op = "cancel"
  /\ reservations' = SetStatus(reservations, req.ids, "cancelled")
  /\ inflight' = inflight \ {req}
  /\ UNCHANGED <<now, tickets, movies, txns, reaper>>

\* BackgroundTaskManager.cleanup_expired_reservations / manual_cleanup: the
\* expired rows are selected without a lock ...
CleanupBegin ==
  LET ids == ExpiredActive(reservations, now)
  IN /\ ids # {}
     /\ Cardinality(inflight) < MaxInflight
     /\ inflight' = inflight \cup {InflightRequest("cleanup", ids)}
     /\ UNCHANGED <<now, reservations, tickets, movies, txns, reaper>>

\* ... and written by primary key at the commit.
CleanupFinish(req) ==
  /\ req \in inflight
  /\ req.op = "cleanup"
  /\ reservations' = SetStatus(reservations, req.ids, "expired")
  /\ inflight' = inflight \ {req}
  /\ UNCHANGED <<now, tickets, movies, txns, reaper>>

\* GET /seat-reservations/screening/{id}/availability[/me]: the session is
\* closed without a commit, so the cleanup it ran is rolled back; the clock
\* advances while the handler runs.
GetAvailability(s, requester) ==
  /\ \E tq \in Later(now) :
       /\ DOMAIN get_seat_availability(reservations, tickets, s, requester, now, tq)
            = RoomSeats(s)
       /\ now' = tq
  /\ UNCHANGED <<reservations, tickets, inflight, movies, txns, reaper>>

\* book_tickets_from_reservation, as the payment callback calls it
BookFromReservation(u, s, seats, k) ==
  \E dbError \in BOOLEAN :
    LET b == book_tickets_from_reservation(reservations, tickets, u, s, seats,
                                           k, now, dbError)
    IN /\ reservations' = b.res
       /\ tickets' = b.tix
       /\ UNCHANGED <<now, inflight, movies, txns, reaper>>

\* POST /tickets/book: book_tickets, then the new tickets are set to pending
book_tickets_endpoint(res, tix, u, s, seats, tc, tk, tn, tb, dbError) ==
  LET b == book_tickets(res, tix, u, s, seats, tc, tk, tn, tb, dbError)
  IN IF b.result = "ok"
       THEN [b EXCEPT !.tix = SetTicketStatus(b.tix, b.ids, "pending")]
       ELSE b

BookDirect(u, s, seats) ==
  /\ \E tk \in Later(now) : \E tn \in Later(tk) : \E tb \in Later(tn) :
     \E dbError \in BOOLEAN :
       LET b == book_tickets_endpoint(reservations, tickets, u, s, seats,
                                      now, tk, tn, tb, dbError)
       IN /\ Len(b.res) <= MaxRes
          /\ reservations' = b.res
          /\ tickets' = b.tix
          /\ now' = tb
  /\ UNCHANGED <<inflight, movies, txns, reaper>>

\* POST /tickets/book-from-reservation: the named reservations are read and
\* validated at clock reading t0, then book_tickets runs on their seats (its
\* reserve step supersedes them), the new tickets are set to pending and the
\* named reservations are written as cancelled.
\* The validation of the named reservations: "ok" or the error raised.
validate_reservation_ids(res, u, ids, t0) ==
  IF ids = {} THEN "invalid_request"
  ELSE IF ~(ids \subseteq DOMAIN res) THEN "not_found"
  ELSE IF \E i \in ids : res[i].user_id # u THEN "forbidden"
  ELSE IF \E i \in ids : res[i].status # "active" THEN "state_conflict"
  ELSE IF \E i \in ids : res[i].expires_at <= t0 THEN "state_conflict"
  ELSE IF Cardinality({res[i].screening_id : i \in ids}) # 1 THEN "invalid_request"
  ELSE "ok"

book_from_reservation(res, tix, u, ids, t0, tc, tk, tn, tb, dbError) ==
  LET checked == validate_reservation_ids(res, u, ids, t0)
  IN IF checked # "ok"
       THEN [result |-> checked, res |-> res, tix |-> tix, ids |-> {}]
       ELSE LET s == CHOOSE x \in {res[i].screening_id : i \in ids} : TRUE
                seats == {res[i].seat_id : i \in ids}
                b == book_tickets(res, tix, u, s, seats, tc, tk, tn, tb, dbError)
            IN IF b.result # "ok" THEN b
               ELSE [b EXCEPT !.tix = SetTicketStatus(b.tix, b.ids, "pending"),
                              !.res = SetStatus(b.res, ids, "cancelled")]

ReservationIdSets == (SUBSET (1..MaxRes)) \ {{}}

\* ------------------------------------------------------------ notifications
\* What a call of the publisher (websocket manager) can do.
PublishOutcomes == {"delivered", "failed"}

\* routers/seat_reservation.py broadcast_seat_updates: a background task run
\* after the response, every exception of the publisher logged; r is the
\* outcome of the handler that scheduled it.
broadcast_seat_updates(r, pub) == r

\* BackgroundTaskManager.cleanup_expired_reservations: the publish follows
\* the commit, every exception passed over.
broadcast_cleanup_updates(res, pub) == res

\* book_tickets_from_reservation: the publish follows the commit, every
\* exception logged as a warning.
broadcast_ticket_bookings(r, pub) == r

\* POST /tickets/book-from-reservation publishes with
\* manager.broadcast_seat_update(..., reserved_by=None, is_mine=False), which
\* the publisher's signature (screening_id, seat_id, status, user_id,
\* expires_at) does not accept: the call raises each time it is made.
TicketRouterPublishOutcomes == {"failed"}

\* The endpoint as its caller sees it: the publish is awaited in the handler
\* after the commit, outside any try, so its exception is the response.
book_from_reservation_endpoint(res, tix, u, ids, t0, tc, tk, tn, tb, dbError, pub) ==
  LET b == book_from_reservation(res, tix, u, ids, t0, tc, tk, tn, tb, dbError)
  IN IF b.result = "ok" /\ pub = "failed"
       THEN [b EXCEPT !.result = "internal_error"]
       ELSE b

BookFromReservationIds(u, ids) ==
  IF validate_reservation_ids(reservations, u, ids, now) # "ok"
    THEN UNCHANGED vars
    ELSE /\ \E tc \in Later(now) : \E tk \in Later(tc) : \E tn \in Later(tk) :
            \E tb \in Later(tn) : \E dbError \in BOOLEAN :
              LET b == book_from_reservation(reservations, tickets, u, ids,
                                             now, tc, tk, tn, tb, dbError)
              IN /\ Len(b.res) <= MaxRes
                 /\ reservations' = b.res
                 /\ tickets' = b.tix
                 /\ now' = tb
         /\ UNCHANGED <<inflight, movies, txns, reaper>>

\* DELETE /tickets/{ticket_id}
CancelTicket(tid, u) ==
  /\ tickets' = cancel_ticket(tickets, tid, u).tix
  /\ UNCHANGED <<now, reservations, inflight, movies, txns, reaper>>

\* POST /tickets/{ticket_id}/confirm-payment
ConfirmPayment(tid, u) ==
  /\ tickets' = confirm_payment(tickets, tid, u).tix
  /\ UNCHANGED <<now, reservations, inflight, movies, txns, reaper>>

\* PUT /tickets/{ticket_id}/status (admin)
UpdateTicketStatus(tid, st) ==
  /\ tickets' = update_ticket_status(tickets, tid, st).tix
  /\ UNCHANGED <<now, reservations, inflight, movies, txns, reaper>>

\* DELETE /movies/{movie_id} (admin): the reservations, the tickets and the
\* screenings of the movie are deleted with the movie in one transaction.
DeleteMovie(m) ==
  /\ m \in movies
  /\ reservations' = SelectSeq(reservations, LAMBDA r : Screening[r.screening_id].movie_id # m)
  /\ tickets' = SelectSeq(tickets, LAMBDA t : Screening[t.screening_id].movie_id # m)
  /\ movies' = movies \ {m}
  /\ UNCHANGED <<now, inflight, txns, reaper>>

\* A handler starts.  reserve_seats first validates the screening and then
\* each seat (it exists, it is in the screening's room) with session.get;
\* extend_reservation and book_tickets_from_reservation go to their lock
\* statement at once.
TxnBegin(t, op, seats) ==
  /\ txns[t].pc = "idle"
  /\ \E o \in ScanOrders(seats) :
       txns' = [txns EXCEPT ![t] =
                  [op |-> op, order |-> o, held |-> 0,
                   pc |-> IF op = "reserve" THEN "validate_seats" ELSE "lock"]]
  /\ UNCHANGED <<now, reservations, tickets, inflight, movies, reaper>>

\* reserve_seats: the seat validation loop is done, the lock statement starts.
TxnValidateSeats(t) ==
  /\ txns[t].pc = "validate_seats"
  /\ txns' = [txns EXCEPT ![t].pc = "lock"]
  /\ UNCHANGED <<now, reservations, tickets, inflight, movies, reaper>>

\* The lock statement locks its next row, if no other transaction holds it;
\* with the last row locked the handler goes on to its checks.
TxnLockSeat(t) ==
  /\ txns[t].pc = "lock"
  /\ \A o \in TxnIds \ {t} : NextSeat(txns[t]) \notin HeldSeats(txns[o])
  /\ txns' = [txns EXCEPT ![t].held = @ + 1,
                          ![t].pc = IF txns[t].held + 1 = Len(txns[t].order)
                                      THEN "check" ELSE "lock"]
  /\ UNCHANGED <<now, reservations, tickets, inflight, movies, reaper>>

\* Commit or rollback: the checks and writes are done, the locks are released.
TxnEnd(t) ==
  /\ txns[t].pc = "check"
  /\ txns' = [txns EXCEPT ![t] = IdleTxn]
  /\ UNCHANGED <<now, reservations, tickets, inflight, movies, reaper>>

\* Two transactions wait for each other: the database aborts one of them
\* (deadlock_detected), its handler answers with an error.
TxnDeadlockAbort(t) ==
  /\ \E o \in TxnIds : WaitsFor(txns, t, o) /\ WaitsFor(txns, o, t)
  /\ txns' = [txns EXCEPT ![t] = IdleTxn]
  /\ UNCHANGED <<now, reservations, tickets, inflight, movies, reaper>>

\* The lock protocol of the handlers that lock seats, two at a time.
NextLocks ==
  \/ \E t \in TxnIds, op \in LockingOps, seats \in LockRequests : TxnBegin(t, op, seats)
  \/ \E t \in TxnIds : TxnValidateSeats(t)
  \/ \E t \in TxnIds : TxnLockSeat(t)
  \/ \E t \in TxnIds : TxnEnd(t)
  \/ \E t \in TxnIds : TxnDeadlockAbort(t)

SpecLocks == Init /\ [][NextLocks]_vars

\* The clock advances by one minute.
TickMinute ==
  /\ now < MaxTime
  /\ now' = now + 1
  /\ UNCHANGED <<reservations, tickets, inflight, movies, txns, reaper>>

\* Minutes an extend may wait for its seat locks after it read current_time.
StaleMinutes == 2

\* POST /seat-reservations/extend on a clock of minutes: current_time was
\* read up to StaleMinutes before the locks were granted.
ExtendAfterWait(u, s, seats, minutes) ==
  \E t \in 0..MaxTime :
    /\ t <= now /\ t >= now - StaleMinutes
    /\ LET r == extend_reservation(reservations, u, s, seats, minutes, t)
       IN /\ r.result = "ok"
          /\ \A i \in r.ids : reservations[i].expires_at + minutes <= MaxExpiry
          /\ reservations' = r.res
          /\ UNCHANGED <<now, tickets, inflight, movies, txns, reaper>>

\* Holds, their extension and the cleanup on a clock of minutes.
NextRace ==
  \/ TickMinute
  \/ \E u \in UserIds, s \in ScreeningIds, seats \in SeatRequests :
       \/ ReserveSeats(u, s, seats)
       \/ \E minutes \in AdditionalMinutes : ExtendAfterWait(u, s, seats, minutes)
  \/ CleanupBegin
  \/ \E req \in inflight : CleanupFinish(req)

SpecRace == Init /\ [][NextRace]_vars

\* start_cleanup_task is called: with the flag set it returns at once, else
\* it sets the flag and enters its loop.
StartCleanupTask(l) ==
  /\ reaper.loops[l].pc = "none"
  /\ reaper' =
       IF reaper.is_running
         THEN [reaper EXCEPT !.loops[l].pc = "done"]
         ELSE [reaper EXCEPT !.is_running = TRUE, !.loops[l].pc = "cleanup"]
  /\ UNCHANGED <<now, reservations, tickets, inflight, movies, txns>>

\* The loop's cleanup returns and the loop goes to sleep for the interval.
LoopSleep(l) ==
  /\ reaper.loops[l].pc = "cleanup"
  /\ reaper' = [reaper EXCEPT !.loops[l].pc = "sleeping",
                              !.loops[l].wake = now + IntervalMinutes]
  /\ UNCHANGED <<now, reservations, tickets, inflight, movies, txns>>

\* The sleep is over: the loop tests the flag, and runs its next cleanup or
\* returns.
LoopWake(l) ==
  /\ reaper.loops[l].pc = "sleeping"
  /\ now >= reaper.loops[l].wake
  /\ reaper' = [reaper EXCEPT !.loops[l].pc =
                                  IF reaper.is_running THEN "cleanup" ELSE "done"]
  /\ UNCHANGED <<now, reservations, tickets, inflight, movies, txns>>

\* stop_cleanup_task: the flag is cleared; self.cleanup_task is never
\* assigned, so no loop is cancelled.
StopCleanupTask ==
  /\ reaper' = [reaper EXCEPT
                  !.is_running = FALSE,
                  !.loops = [l \in LoopIds |->
                               IF l \in LiveLoops(reaper)
                                 THEN [reaper.loops[l] EXCEPT !.stopped = TRUE]
                                 ELSE reaper.loops[l]]]
  /\ UNCHANGED <<now, reservations, tickets, inflight, movies, txns>>

\* The shutdown of the lifespan whose task is loop l: stop_cleanup_task, then
\* the task is cancelled and awaited.
LifespanShutdown(l) ==
  /\ l \in LiveLoops(reaper)
  /\ reaper' = [reaper EXCEPT
                  !.is_running = FALSE,
                  !.loops = [k \in LoopIds |->
                               IF k = l THEN [reaper.loops[k] EXCEPT !.pc = "done",
                                                                     !.stopped = TRUE]
                               ELSE IF k \in LiveLoops(reaper)
                                 THEN [reaper.loops[k] EXCEPT !.stopped = TRUE]
                               ELSE reaper.loops[k]]]
  /\ UNCHANGED <<now, reservations, tickets, inflight, movies, txns>>

\* The manager and the clock.
NextReaper ==
  \/ TickMinute
  \/ \E l \in LoopIds : StartCleanupTask(l)
  \/ \E l \in LoopIds : LoopSleep(l)
  \/ \E l \in LoopIds : LoopWake(l)
  \/ StopCleanupTask
  \/ \E l \in LoopIds : LifespanShutdown(l)

SpecReaper == Init /\ [][NextReaper]_vars

Next ==
  \/ Tick
  \/ \E u \in UserIds, s \in ScreeningIds, seats \in SeatRequests :
       \/ ReserveSeats(u, s, seats)
       \/ ToggleSeat(u, s, seats)
       \/ BookDirect(u, s, seats)
       \/ \E minutes \in AdditionalMinutes : ExtendReservations(u, s, seats, minutes)
       \/ \E k \in PaymentIds : BookFromReservation(u, s, seats, k)
  \/ \E u \in UserIds, s \in ScreeningIds, seats \in SeatRequests \cup {{}} :
       CancelBegin(u, s, seats)
  \/ \E req \in inflight : CancelFinish(req)
  \/ CleanupBegin
  \/ \E req \in inflight : CleanupFinish(req)
  \/ \E u \in UserIds, ids \in ReservationIdSets : BookFromReservationIds(u, ids)
  \/ \E s \in ScreeningIds, requester \in UserIds \cup {Anonymous} :
       GetAvailability(s, requester)
  \/ \E tid \in TicketRowIds, u \in UserIds :
       \/ CancelTicket(tid, u)
       \/ ConfirmPayment(tid, u)
  \/ \E tid \in TicketRowIds, st \in TicketStatuses : UpdateTicketStatus(tid, st)

Spec == Init /\ [][Next]_vars

\* The reservation core together with the catalog administration that
\* writes to its tables.
NextCatalog ==
  \/ Next
  \/ \E m \in MovieIds : DeleteMovie(m)

SpecCatalog == Init /\ [][NextCatalog]_vars

\* The checkout pipeline alone (hold, pay, cancel the hold, set a ticket's
\* status) on a longer ledger: its behaviours are behaviours of the system in
\* which the other handlers are not called.
MaxCheckoutRes == 3

NextCheckout ==
  \/ \E u \in UserIds, s \in ScreeningIds, seats \in SeatRequests :
       \/ Reserve(u, s, seats, MaxCheckoutRes)
       \/ \E k \in PaymentIds : BookFromReservation(u, s, seats, k)
       \/ CancelBegin(u, s, seats)
  \/ \E req \in inflight : CancelFinish(req)
  \/ \E tid \in TicketRowIds, st \in TicketStatuses : UpdateTicketStatus(tid, st)

SpecCheckout == Init /\ [][NextCheckout]_vars

\* ------------------------------------------------------------ vocabulary
\* Rows that are a hold at clock reading t: active and not yet expired.
Holds(res, t) == {i \in DOMAIN res : res[i].status = "active" /\ res[i].expires_at > t}

SameSlot(a, b) == a.screening_id = b.screening_id /\ a.seat_id = b.seat_id

\* Tickets that sell a seat: pending or confirmed.
SoldTickets(tix) == {i \in DOMAIN tix : tix[i].status \in {"pending", "confirmed"}}

\* --------------------------------------------------------------------- C1
\* C1: in every reachable state each (screening, seat) pair has at most one
\* reservation that is active with expires_at later than the current time.
C1_MutualExclusion ==
  \A i, j \in Holds(reservations, now) :
    SameSlot(reservations[i], reservations[j]) => i = j

\* A slot that changed hands: a hold of one user next to a retired row of
\* another user on the same slot.
C1_Witness ==
  \E i \in Holds(reservations, now), j \in DOMAIN reservations :
    /\ SameSlot(reservations[i], reservations[j])
    /\ reservations[j].user_id # reservations[i].user_id
    /\ reservations[j].status \in {"expired", "cancelled"}

\* --------------------------------------------------------------------- C2
\* C2: no (screening, seat) pair has both an active, unexpired reservation
\* and a ticket in status confirmed or pending.
C2_NoHoldOnSoldSeat ==
  \A i \in Holds(reservations, now), t \in SoldTickets(tickets) :
    ~SameSlot(reservations[i], tickets[t])

\* --------------------------------------------------------------------- C3
\* C3: each (screening, seat) pair has at most one ticket whose status is
\* pending or confirmed.
C3_SeatSoldOnce ==
  \A a, b \in SoldTickets(tickets) :
    SameSlot(tickets[a], tickets[b]) => a = b

\* --------------------------------------------------------------------- C4
\* A request that passes the checks made before the seats are locked.
WellFormedRequest(s, seats, t) ==
  /\ s \in ScreeningRows
  /\ seats \subseteq SeatIds
  /\ ~Screening[s].coming_soon
  /\ Screening[s].screening_time >= t
  /\ \A x \in seats : Seat[x].room_id = Screening[s].room_id

\* Some requested seat is held by another user or is sold.
Contended(u, s, seats) ==
  \/ \E i \in Holds(reservations, now) :
       /\ reservations[i].screening_id = s
       /\ reservations[i].seat_id \in seats
       /\ reservations[i].user_id # u
  \/ \E t \in SoldTickets(tickets) :
       tickets[t].screening_id = s /\ tickets[t].seat_id \in seats

ConflictResults == {"already_booked", "reserved_by_others", "integrity_conflict"}

\* C4: a reserve_seats call in which some requested seat is held by an
\* active, unexpired reservation of another user, or has a pending or
\* confirmed ticket, fails with a conflict error and leaves the reservation
\* ledger as it was: no seat of the request becomes held.
C4_AllOrNothing ==
  \A u \in UserIds, s \in ScreeningIds, seats \in SeatRequests :
    (WellFormedRequest(s, seats, now) /\ Contended(u, s, seats)) =>
      \A tk \in Later(now) : \A tn \in Later(tk) :
        LET r == reserve_seats(reservations, tickets, u, s, seats, now, now, tk, tn)
        IN r.result \in ConflictResults /\ r.res = reservations

\* --------------------------------------------------------------------- C5
\* Row r is a hold of user u on screening s.
HeldBy(r, u, s) ==
  /\ r \in Holds(reservations, now)
  /\ reservations[r].user_id = u
  /\ reservations[r].screening_id = s

\* Rows of ledger res that are active on the slot of row.
ActiveOnSlot(res, row) ==
  {i \in DOMAIN res : SameSlot(res[i], row) /\ res[i].status = "active"}

\* C5: when user u holds reservation r on (s, seat) and reserve_seats(u, s,
\* {seat}) succeeds, r is cancelled afterwards and the slot has exactly one
\* active row: a new row (id not in the old ledger) of u whose expires_at is
\* the clock reading of the second call plus the hold duration.
C5_Supersede ==
  \A u \in UserIds, s \in ScreeningIds, r \in DOMAIN reservations :
    HeldBy(r, u, s) =>
      \A tk \in Later(now) : \A tn \in Later(tk) :
        LET p == reserve_seats(reservations, tickets, u, s,
                               {reservations[r].seat_id}, now, now, tk, tn)
            act == ActiveOnSlot(p.res, reservations[r])
        IN p.result = "ok" =>
             /\ p.res[r].status = "cancelled"
             /\ Cardinality(act) = 1
             /\ \A i \in act :
                  /\ p.res[i].user_id = u
                  /\ i # r
                  /\ i \notin DOMAIN reservations
                  /\ i \in p.ids
                  /\ tn >= now
                  /\ p.res[i].expires_at = tn + RESERVATION_DURATION_MINUTES

\* A user who holds a seat reserves it again and the call succeeds.
C5_Witness ==
  \E u \in UserIds, s \in ScreeningIds, r \in DOMAIN reservations :
    /\ HeldBy(r, u, s)
    /\ \E tk \in Later(now) : \E tn \in Later(tk) :
         reserve_seats(reservations, tickets, u, s, {reservations[r].seat_id},
                       now, now, tk, tn).result = "ok"

\* --------------------------------------------------------------------- C6
\* Row r is a lapsed hold: still active in the ledger, expires_at in the
\* past, and every other row of its slot is expired, cancelled or booked.
LapsedHold(r) ==
  /\ reservations[r].status = "active"
  /\ reservations[r].expires_at < now
  /\ \A j \in DOMAIN reservations \ {r} :
       SameSlot(reservations[j], reservations[r]) =>
         reservations[j].status \in {"expired", "cancelled", "booked"}

SlotSold(row) == \E t \in SoldTickets(tickets) : SameSlot(tickets[t], row)

\* C6: reserve_seats by user u on a seat whose only non-terminal reservation
\* is a lapsed hold of another user, not yet reaped, succeeds whenever the
\* request is well formed and the seat is not sold: the lapsed hold does not
\* block it, and the seat becomes held by u.
C6_ExpiredNeverBlocks ==
  \A u \in UserIds, r \in DOMAIN reservations :
    LET row == reservations[r]
    IN (/\ LapsedHold(r)
        /\ row.user_id # u
        /\ WellFormedRequest(row.screening_id, {row.seat_id}, now)
        /\ ~SlotSold(row)) =>
         \A tk \in Later(now) : \A tn \in Later(tk) :
           LET p == reserve_seats(reservations, tickets, u, row.screening_id,
                                  {row.seat_id}, now, now, tk, tn)
           IN /\ p.result = "ok"
              /\ p.res[r].status = "expired"
              /\ \A i \in ActiveOnSlot(p.res, row) : p.res[i].user_id = u
              /\ ActiveOnSlot(p.res, row) # {}

\* A lapsed, unreaped hold of one user on a seat another user can ask for.
C6_Witness ==
  \E u \in UserIds, r \in DOMAIN reservations :
    /\ LapsedHold(r)
    /\ reservations[r].user_id # u
    /\ ~SlotSold(reservations[r])
    /\ reserve_seats(reservations, tickets, u, reservations[r].screening_id,
                     {reservations[r].seat_id}, now, now, now, now).result = "ok"

\* --------------------------------------------------------------------- C7
\* C7: when book_tickets_from_reservation(u, s, seats, k) succeeds, the same
\* call made again on the store it leaves succeeds, returns the same ticket
\* ids, and returns the ticket and reservation ledgers unchanged.
C7_IdempotentReplay ==
  \A u \in UserIds, s \in ScreeningIds, seats \in SeatRequests, k \in PaymentIds :
    LET first == book_tickets_from_reservation(reservations, tickets, u, s,
                                               seats, k, now, FALSE)
    IN first.result = "ok" =>
         \A e \in BOOLEAN :
           LET second == book_tickets_from_reservation(first.res, first.tix, u,
                                                       s, seats, k, now, e)
           IN /\ second.result = "ok"
              /\ second.ids = first.ids
              /\ second.tix = first.tix
              /\ Len(second.tix) = Len(first.tix)
              /\ second.res = first.res

\* --------------------------------------------------------------------- C8
\* Keys a booking call may carry: a payment reference or none.
BookingKeys == PaymentIds \cup {NoPayment}

\* Tickets of user u on the seats that carry payment reference k.
KeyedTickets(tix, u, s, seats, k) ==
  {i \in DOMAIN tix :
     /\ tix[i].screening_id = s
     /\ tix[i].seat_id \in seats
     /\ tix[i].user_id = u
     /\ tix[i].payment_id = k}

\* Tickets carrying key k cover every requested seat.
AlreadyProcessed(u, s, seats, k) ==
  /\ k # NoPayment
  /\ \A x \in seats :
       \E i \in KeyedTickets(tickets, u, s, seats, k) : tickets[i].seat_id = x

\* The call returned rows that were in the ticket ledger before it.
ReturnsOldTickets(b) == b.result = "ok" /\ b.ids \cap DOMAIN tickets # {}

\* C8: book_tickets_from_reservation returns pre-existing tickets only when
\* tickets carrying exactly the given idempotency key exist for all requested
\* seats, and every ticket it returns then carries that key.
C8_ReplayOnlyForSameKey ==
  \A u \in UserIds, s \in ScreeningIds, seats \in SeatRequests, k \in BookingKeys :
    \A e \in BOOLEAN :
      LET b == book_tickets_from_reservation(reservations, tickets, u, s, seats,
                                             k, now, e)
      IN ReturnsOldTickets(b) =>
           /\ AlreadyProcessed(u, s, seats, k)
           /\ \A i \in b.ids : tickets[i].payment_id = k

\* --------------------------------------------------------------------- C9
\* The caller's holds on the requested seats: what a booking consumes.
Consumable(u, s, seats) ==
  {i \in Holds(reservations, now) :
     /\ reservations[i].user_id = u
     /\ reservations[i].screening_id = s
     /\ reservations[i].seat_id \in seats}

LacksValidReservation(u, s, seats) ==
  \E x \in seats :
    ~\E i \in Consumable(u, s, seats) : reservations[i].seat_id = x

\* C10: book_tickets_from_reservation fails with a validation error whenever
\* some requested seat lacks a reservation of the caller that is active with
\* expires_at later than now (the replay of an already processed key apart);
\* and whenever the call fails, at the validation or later, it leaves the
\* ticket and reservation ledgers as they were.
C10_NoBookingWithoutHold ==
  \A u \in UserIds, s \in ScreeningIds, seats \in SeatRequests, k \in BookingKeys :
    \A e \in BOOLEAN :
      LET b == book_tickets_from_reservation(reservations, tickets, u, s, seats,
                                             k, now, e)
      IN /\ (LacksValidReservation(u, s, seats) /\ ~AlreadyProcessed(u, s, seats, k))
              => b.result = "invalid_request"
         /\ b.result # "ok" => (b.tix = tickets /\ b.res = reservations)

\* -------------------------------------------------------------------- C11
\* The reserve step of a direct booking succeeds and the call fails.
BookingStepFails(u, s, seats, tk, tn, tb, e) ==
  /\ reserve_seats(reservations, tickets, u, s, seats, now, now, tk, tn).result = "ok"
  /\ book_tickets(reservations, tickets, u, s, seats, now, tk, tn, tb, e).result # "ok"

TerminalStatuses == {"expired", "cancelled", "booked"}

\* C12: in every step, a reservation row whose status changes was active
\* before the step and is expired, cancelled or booked after it; a row in a
\* terminal status keeps that status for ever.
C12_ForwardOnly ==
  [][\A i \in DOMAIN reservations :
       reservations'[i].status # reservations[i].status =>
         /\ reservations[i].status = "active"
         /\ reservations'[i].status \in TerminalStatuses]_vars

\* -------------------------------------------------------------------- C13
\* The reaper loop (start_cleanup_task) runs a cleanup and sleeps, for as
\* long as the application runs, and swallows every exception: a cleanup
\* that has rows to expire is eventually started and eventually commits.  The
\* clock advances, and a cancel request that has read its rows reaches its
\* commit.
ReaperFairness ==
  /\ WF_vars(Tick)
  /\ WF_vars(CleanupBegin)
  /\ WF_vars(\E req \in inflight : CleanupFinish(req))
  /\ WF_vars(\E req \in inflight : CancelFinish(req))

SpecLive == Spec /\ ReaperFairness

ActiveRow(i) == i \in DOMAIN reservations /\ reservations[i].status = "active"
LapsedRow(i) == ActiveRow(i) /\ reservations[i].expires_at < now

\* The clock of the model stops at MaxTime: a row whose expires_at has been
\* extended to MaxTime or beyond can no longer lapse.
BeyondClock(i) == ActiveRow(i) /\ reservations[i].expires_at >= MaxTime

\* C13: under fairness of the reaper and of the clock, every reservation row
\* that is active with expires_at in the past eventually leaves status
\* active, whatever the users do or do not do (as far as the clock runs).
C13_ReaperFreesLapsedHolds ==
  \A i \in 1..MaxRes : LapsedRow(i) ~> (~ActiveRow(i) \/ BeyondClock(i))

C13_Witness ==
  /\ Len(reservations) = MaxRes
  /\ \A i \in DOMAIN reservations :
       /\ reservations[i].status = "expired"
       /\ reservations[i].expires_at < now

\* -------------------------------------------------------------------- C14
\* The sweeps alone (the reaper's or POST /seat-reservations/cleanup, and the
\* inline cleanup of reserve_seats), with the handlers that create holds and
\* tickets: its behaviours are behaviours of the system in which no hold is
\* cancelled or extended.

NextSweep ==
  \/ Tick
  \/ \E u \in UserIds, s \in ScreeningIds, seats \in SeatRequests :
       \/ ReserveSeats(u, s, seats)
       \/ \E k \in PaymentIds : BookFromReservation(u, s, seats, k)
  \/ CleanupBegin
  \/ \E req \in inflight : CleanupFinish(req)

SpecSweep == Init /\ [][NextSweep]_vars

\* Sweeps that have selected their rows and not yet committed.
ParkedSweeps == {req \in inflight : req.op = "cleanup"}
SweepWrite(req) == SetStatus(reservations, req.ids, "expired")

\* C14: a second cleanup changes nothing the first one has done.  In
\* sequence: a cleanup after a cleanup gives the ledger one cleanup gives, and
\* a cleanup changes no row that is not active with expires_at in the past.
\* Concurrently: every row a parked sweep is about to write is a lapsed hold
\* or a row another cleanup has expired, and the sweep's write gives the row
\* a cleanup run now gives (a no-op for an expired row).
C14_CleanupIdempotent ==
  /\ \A t \in ClockReadings : \A t2 \in {x \in ClockReadings : x >= t} :
       LET once == cleanup_expired_reservations(reservations, t2)
       IN /\ cleanup_expired_reservations(
               cleanup_expired_reservations(reservations, t), t2) = once
          /\ cleanup_expired_reservations(once, t) = once
          /\ \A i \in DOMAIN reservations :
               ~(reservations[i].status = "active" /\ reservations[i].expires_at < t2)
                 => once[i] = reservations[i]
  /\ \A req \in ParkedSweeps : \A i \in req.ids :
       /\ reservations[i].status \in {"active", "expired"}
       /\ reservations[i].status = "active" => reservations[i].expires_at < now
       /\ SweepWrite(req)[i] = cleanup_expired_reservations(reservations, now)[i]

\* A sweep parked on a row that an inline cleanup has expired in the
\* meantime, next to a ticket.
C14_Witness ==
  /\ \E req \in ParkedSweeps : \E i \in req.ids : reservations[i].status = "expired"
  /\ Len(tickets) > 0

\* -------------------------------------------------------------------- C15
\* Seat lists an extend request may carry: any seats of the catalog.
ExtendRequests == (SUBSET SeatIds) \ {{}}

\* Seat x has a reservation of u for s that is active and unexpired at the
\* request's clock reading t.
HasValidHold(u, s, x, t) ==
  \E i \in DOMAIN reservations :
    /\ reservations[i].screening_id = s
    /\ reservations[i].seat_id = x
    /\ reservations[i].user_id = u
    /\ reservations[i].status = "active"
    /\ reservations[i].expires_at > t

\* C15: an extend request one of whose seats has no reservation that is
\* owned by the caller, active and unexpired fails with a validation error
\* and changes no row, the valid seats' rows included.
C15_ExtendAllOrNothing ==
  \A u \in UserIds, s \in ScreeningIds, seats \in ExtendRequests :
    \A minutes \in AdditionalMinutes, t \in Earlier :
      (\E x \in seats : ~HasValidHold(u, s, x, t)) =>
        LET r == extend_reservation(reservations, u, s, seats, minutes, t)
        IN r.result = "invalid_request" /\ r.res = reservations

\* A request that names a seat the caller holds and a seat the caller does
\* not hold.
C15_Witness ==
  \E u \in UserIds, s \in ScreeningIds, seats \in ExtendRequests : \E t \in Earlier :
    /\ \E x \in seats : HasValidHold(u, s, x, t)
    /\ \E x \in seats : ~HasValidHold(u, s, x, t)
    /\ \E x \in seats : \E i \in DOMAIN reservations :
         reservations[i].seat_id = x /\ reservations[i].user_id # u

\* -------------------------------------------------------------------- C16
\* Values the query parameter additional_minutes (an int without a range)
\* can carry.
QueryMinutes == {-5, 0, 5, 10}

\* C16: a successful extend sets the expires_at of every row it targets to
\* the previous value plus additional_minutes, and the new value is
\* strictly later than the previous one for every accepted
\* additional_minutes.
C16_ExtendStrictlyLater ==
  \A u \in UserIds, s \in ScreeningIds, seats \in SeatRequests :
    \A minutes \in QueryMinutes, t \in Earlier :
      LET r == extend_reservation(reservations, u, s, seats, minutes, t)
      IN r.result = "ok" =>
           \A i \in r.ids :
             /\ r.res[i].expires_at = reservations[i].expires_at + minutes
             /\ r.res[i].expires_at > reservations[i].expires_at

\* -------------------------------------------------------------------- C17
\* Seat x of screening s is held, at the clock reading now, by a user other
\* than u.
HeldByOther(u, s, x) ==
  \E i \in Holds(reservations, now) :
    /\ reservations[i].screening_id = s
    /\ reservations[i].seat_id = x
    /\ reservations[i].user_id # u

ParkedCancels == {req \in inflight : req.op = "cancel"}

\* C17: a cancel request of user u changes no row of another user; a
\* request all of whose seats are held by other users cancels nothing and is
\* answered not-found, and those holds stay active with their expiry.  The
\* same holds for the write of a cancel request that has selected its rows
\* and not yet committed: the rows it writes are rows of one user.
C17_CancelOwnOnly ==
  /\ \A u \in UserIds, s \in ScreeningIds, seats \in SeatRequests \cup {{}} :
       LET r == cancel_specific_reservations(reservations, u, s, seats)
       IN /\ \A i \in DOMAIN reservations :
               reservations[i].user_id # u => r.res[i] = reservations[i]
          /\ (seats # {} /\ \A x \in seats : HeldByOther(u, s, x)) =>
               r.result = "not_found" /\ r.count = 0 /\ r.res = reservations
  /\ \A req \in ParkedCancels : \A i, j \in req.ids :
       reservations[i].user_id = reservations[j].user_id

\* A seat held by one user while the other user, who names it in a cancel
\* request, has had a hold of its own cancelled.
C17_Witness ==
  \E u \in UserIds, s \in ScreeningIds :
    /\ HeldByOther(u, s, 1)
    /\ cancel_specific_reservations(reservations, u, s, {1}).result = "not_found"
    /\ \E i \in DOMAIN reservations :
         reservations[i].user_id = u /\ reservations[i].status = "cancelled"

\* -------------------------------------------------------------------- C18
\* Seat lists a cancel request may carry that are not None: get_seat_ids
\* returns seat_ids whenever it is not None, the empty list included.
NonNullSeatLists == SeatRequests \cup {{}}

\* C18: a cancel request that carries a seat list changes only rows on the
\* listed seats of the screening; the caller's holds on other seats keep
\* their status and expiry.
C18_CancelListedOnly ==
  \A u \in UserIds, s \in ScreeningIds, seats \in NonNullSeatLists :
    LET r == cancel_reservations(reservations, u, s, seats)
    IN \A i \in DOMAIN reservations :
         reservations[i].seat_id \notin seats => r[i] = reservations[i]

\* -------------------------------------------------------------------- C19
\* Seat x of screening s is available at clock reading t: it has no ticket
\* that sells it and no hold.
Available(res, s, x, t) ==
  /\ \A k \in SoldTickets(tickets) :
       ~(tickets[k].screening_id = s /\ tickets[k].seat_id = x)
  /\ \A i \in Holds(res, t) : ~(res[i].screening_id = s /\ res[i].seat_id = x)

\* C19: on a seat that is available, a toggle of user u answers reserved and
\* the next toggle of u (made while the new hold runs) answers unreserved;
\* after it the seat is available again and no row of the slot is active.
C19_ToggleTwice ==
  \A u \in UserIds, s \in ScreeningIds : \A x \in RoomSeats(s) :
    Available(reservations, s, x, now) =>
      \A tk \in Later(now) : \A tn \in Later(tk) :
        LET r1 == toggle_seat_reservation(reservations, tickets, u, s, {x}, now, tk, tn)
            r2 == toggle_seat_reservation(r1.res, tickets, u, s, {x}, tn, tn, tn)
        IN /\ r1.action = "reserved" /\ r1.result = "ok"
           /\ r2.action = "unreserved" /\ r2.result = "ok"
           /\ Available(r2.res, s, x, tn)
           /\ \A i \in DOMAIN r2.res :
                (r2.res[i].screening_id = s /\ r2.res[i].seat_id = x)
                  => r2.res[i].status # "active"

\* -------------------------------------------------------------------- C20
Requesters == UserIds \cup {Anonymous}

\* Holds on seat x of screening s at clock reading t.
HoldsOn(s, x, t) ==
  {i \in Holds(reservations, t) :
     reservations[i].screening_id = s /\ reservations[i].seat_id = x}

\* C20: whatever the reaper has done, the availability view reports a seat
\* reserved or reserved_by_me only for a reservation that is active and
\* expires after the reading of the clock, whose holder and expiry it shows;
\* a seat with no such reservation and no ticket that sells it is reported
\* available.
C20_NoStaleHoldShown ==
  \A s \in ScreeningIds, requester \in Requesters : \A tq \in Later(now) :
    LET av == get_seat_availability(reservations, tickets, s, requester, now, tq)
    IN \A x \in RoomSeats(s) :
         /\ av[x].status \in {"reserved", "reserved_by_me"} =>
              \E i \in HoldsOn(s, x, tq) :
                /\ av[x].expires_at = reservations[i].expires_at
                /\ av[x].reserved_by = reservations[i].user_id
         /\ (HoldsOn(s, x, now) = {} /\ Available(reservations, s, x, now)) =>
              av[x].status = "available"

\* A seat without a ticket whose only hold has lapsed and was not reaped, and
\* which the view reports available.
C20_Witness ==
  \E s \in ScreeningIds : \E x \in RoomSeats(s) :
    /\ \E i \in DOMAIN reservations :
         /\ reservations[i].screening_id = s /\ reservations[i].seat_id = x
         /\ reservations[i].status = "active"
         /\ reservations[i].expires_at < now
    /\ \A k \in DOMAIN tickets : tickets[k].seat_id # x
    /\ get_seat_availability(reservations, tickets, s, Anonymous, now, now)[x].status
         = "available"

\* -------------------------------------------------------------------- C21
\* Seat x of screening s is ticketed: a ticket that sells it (pending or
\* confirmed) exists.
Ticketed(s, x) ==
  \E k \in SoldTickets(tickets) :
    tickets[k].screening_id = s /\ tickets[k].seat_id = x

\* C21: the availability view has exactly the seats of the screening's room
\* and gives each one status: reserved_by_me iff the seat is unticketed and
\* the requester owns its hold, reserved iff it is unticketed and another
\* user owns its hold (any user for the anonymous requester), available iff
\* it is unticketed and has no hold; holder and expiry are given exactly for
\* reserved and reserved_by_me, and are those of the hold.
C21_AvailabilityStatus ==
  \A s \in ScreeningIds, requester \in Requesters : \A tq \in Later(now) :
    LET av == get_seat_availability(reservations, tickets, s, requester, now, tq)
    IN /\ DOMAIN av = RoomSeats(s)
       /\ \A x \in RoomSeats(s) :
            LET H == HoldsOn(s, x, tq)
                shown == av[x].status \in {"reserved", "reserved_by_me"}
            IN /\ av[x].status = "reserved_by_me" <=>
                    (~Ticketed(s, x) /\ \E i \in H : reservations[i].user_id = requester)
               /\ av[x].status = "reserved" <=>
                    (~Ticketed(s, x) /\ \E i \in H : reservations[i].user_id # requester)
               /\ av[x].status = "available" <=> (~Ticketed(s, x) /\ H = {})
               /\ shown <=> av[x].reserved_by # NoValue
               /\ shown <=> av[x].expires_at # NoValue
               /\ shown => \E i \in H :
                    /\ av[x].reserved_by = reservations[i].user_id
                    /\ av[x].expires_at = reservations[i].expires_at
               /\ av[x].is_mine <=> av[x].status = "reserved_by_me"

\* -------------------------------------------------------------------- C22
\* C22: the availability view reports booked for every ticketed seat,
\* whatever reservation the seat has.
C22_TicketedShownBooked ==
  \A s \in ScreeningIds, requester \in Requesters : \A tq \in Later(now) :
    LET av == get_seat_availability(reservations, tickets, s, requester, now, tq)
    IN \A x \in RoomSeats(s) : Ticketed(s, x) => av[x].status = "booked"

\* -------------------------------------------------------------------- C23
\* The slot of ticket row t has a reservation in status booked.
BookedSlot(t) ==
  \E i \in DOMAIN reservations :
    SameSlot(reservations[i], t) /\ reservations[i].status = "booked"

\* C23: a step in which cancel_ticket succeeds on the ticket of a booked
\* slot leaves every reservation row as it was (none is active again), and
\* the availability view taken after it reports the seat available.
C23_CancelTicketFreesSeat ==
  [][\A tid \in TicketRowIds, u \in UserIds :
       (/\ cancel_ticket(tickets, tid, u).result = "ok"
        /\ BookedSlot(tickets[tid])
        /\ CancelTicket(tid, u)) =>
         /\ reservations' = reservations
         /\ \A requester \in Requesters : \A tq \in Later(now) :
              get_seat_availability(reservations', tickets',
                                    tickets[tid].screening_id, requester, now', tq)
                [tickets[tid].seat_id].status = "available"]_vars

\* -------------------------------------------------------------------- C24
\* Ticket ids a request may name: the rows of the ledger and one id beyond.
TicketRequestIds == 1..(MaxRes + 1)

\* C24: cancel_ticket(tid, u) on a ticket that exists, is owned by u and is
\* not cancelled sets that ticket's status to cancelled and changes nothing
\* else; otherwise it fails (not-found, forbidden, error for a cancelled
\* ticket) and changes no ticket.  No step of cancel_ticket changes a
\* reservation row.
C24_CancelTicketGuarded ==
  /\ [](\A tid \in TicketRequestIds, u \in UserIds :
          LET c == cancel_ticket(tickets, tid, u)
          IN IF tid \notin DOMAIN tickets
               THEN c.result = "not_found" /\ c.tix = tickets
             ELSE IF tickets[tid].user_id # u
               THEN c.result = "forbidden" /\ c.tix = tickets
             ELSE IF tickets[tid].status = "cancelled"
               THEN c.result = "invalid_request" /\ c.tix = tickets
             ELSE /\ c.result = "ok"
                  /\ c.tix = [tickets EXCEPT ![tid].status = "cancelled"])
  /\ [][\A tid \in TicketRowIds, u \in UserIds :
          CancelTicket(tid, u) => reservations' = reservations]_vars

\* A ticket its owner has cancelled, next to a ticket of the other user that
\* is not cancelled.
C24_Witness ==
  \E i, j \in DOMAIN tickets :
    /\ tickets[i].status = "cancelled"
    /\ tickets[j].status # "cancelled"
    /\ tickets[i].user_id # tickets[j].user_id

\* -------------------------------------------------------------------- C25
\* C25: a well-formed reserve request that names a ticketed seat (a ticket
\* pending or confirmed, of any owner) fails with the conflict "already
\* booked", whatever the clock readings of the handler.
C25_TicketedSeatRefused ==
  \A u \in UserIds, s \in ScreeningIds, seats \in SeatRequests :
    (WellFormedRequest(s, seats, now) /\ \E x \in seats : Ticketed(s, x)) =>
      \A tk \in Later(now) : \A tn \in Later(tk) :
        reserve_seats(reservations, tickets, u, s, seats, now, now, tk, tn).result
          = "already_booked"

\* -------------------------------------------------------------------- C26
\* Requests that fail a validation: an unknown screening (4), the played
\* screening, the unreleased one, an unknown seat (4), a seat of another room.
AnyScreenings == ScreeningRows \cup {4}
AnySeatLists == {{1}, {1, 2}, {3}, {1, 3}, {4}, {1, 4}}

\* C26: a reserve_seats call that fails, for whatever reason, leaves the
\* reservation ledger as it was: no row is added, no row is swept, and the
\* caller's active rows on the requested seats keep status and expiry.
C26_FailedReserveChangesNothing ==
  \A u \in UserIds, s \in AnyScreenings, seats \in AnySeatLists :
    \A tk \in Later(now) : \A tn \in Later(tk) :
      LET r == reserve_seats(reservations, tickets, u, s, seats, now, now, tk, tn)
      IN r.result # "ok" => r.res = reservations /\ r.ids = {}

\* A caller with a hold on seat 1 whose request fails on the room of seat 3
\* and on the played screening, next to a lapsed row not yet swept, while the
\* other user's request for seat 1 fails on the hold.
C26_Witness ==
  \E u, v \in UserIds :
    /\ u # v
    /\ \E i \in Holds(reservations, now) :
         reservations[i].user_id = u /\ reservations[i].seat_id = 1
    /\ reserve_seats(reservations, tickets, u, 1, {1, 3}, now, now, now, now).result
         = "invalid_request"
    /\ reserve_seats(reservations, tickets, u, 2, {1}, now, now, now, now).result
         = "invalid_request"
    /\ reserve_seats(reservations, tickets, v, 1, {1}, now, now, now, now).result
         = "reserved_by_others"
    /\ ExpiredActive(reservations, now) # {}

\* -------------------------------------------------------------------- C27
\* C27: every row a successful reserve_seats creates, called directly or by
\* the reserve branch of the toggle, is active, was created at the clock
\* reading tn of the call and expires 5 minutes after it; the rows of one
\* request are one per seat and share that expiry.
C27_HoldDuration ==
  \A u \in UserIds, s \in ScreeningIds, seats \in SeatRequests :
    \A tk \in Later(now) : \A tn \in Later(tk) :
      LET r == reserve_seats(reservations, tickets, u, s, seats, now, now, tk, tn)
          g == toggle_seat_reservation(reservations, tickets, u, s, seats, now, tk, tn)
          made(res) == {i \in DOMAIN res : i > Len(reservations)}
          fresh(res) ==
            /\ {res[i].seat_id : i \in made(res)} = seats
            /\ Cardinality(made(res)) = Cardinality(seats)
            /\ \A i \in made(res) :
                 /\ res[i].status = "active"
                 /\ res[i].user_id = u /\ res[i].screening_id = s
                 /\ res[i].reserved_at = tn
                 /\ res[i].expires_at = tn + 5
      IN /\ r.result = "ok" => fresh(r.res) /\ r.ids = made(r.res)
         /\ (g.action = "reserved" /\ g.result = "ok") => fresh(g.res)
         /\ RESERVATION_DURATION_MINUTES = 5

\* A state after a two-seat request: two holds of one user made at the same
\* clock reading, in which a further two-seat request would succeed.
C27_Witness ==
  /\ \E i, j \in Holds(reservations, now) :
       /\ i # j
       /\ reservations[i].user_id = reservations[j].user_id
       /\ reservations[i].reserved_at = reservations[j].reserved_at
       /\ reservations[i].expires_at = reservations[i].reserved_at + 5
  /\ \E u \in UserIds :
       reserve_seats(reservations, tickets, u, 1, {1, 2}, now, now, now, now).result = "ok"

\* -------------------------------------------------------------------- C28
\* C28: no step removes a row of the reservation ledger: every id of the
\* ledger is still there after the step, for the same user, screening and
\* seat; a row is retired by a change of its status only.
C28_NoRowRemoved ==
  [][/\ DOMAIN reservations \subseteq DOMAIN reservations'
     /\ \A i \in DOMAIN reservations :
          /\ reservations'[i].user_id = reservations[i].user_id
          /\ reservations'[i].screening_id = reservations[i].screening_id
          /\ reservations'[i].seat_id = reservations[i].seat_id
          /\ reservations'[i].reserved_at = reservations[i].reserved_at]_vars

\* -------------------------------------------------------------------- C29
\* C29: whatever the publisher does with the notifications of a mutating
\* operation (reserve, toggle, extend, cancel, cleanup, book, checkout), the
\* operation has the outcome and leaves the reservation and ticket rows it
\* committed before the publish: a failed publish undoes nothing and does
\* not make the operation fail.
C29_PublishAfterCommitHarmless ==
  /\ \A u \in UserIds, s \in ScreeningIds, seats \in SeatRequests, pub \in PublishOutcomes :
       \A tk \in Later(now) : \A tn \in Later(tk) :
         LET r == reserve_seats(reservations, tickets, u, s, seats, now, now, tk, tn)
             g == toggle_seat_reservation(reservations, tickets, u, s, seats, now, tk, tn)
             c == cancel_specific_reservations(reservations, u, s, seats)
             b == book_tickets_from_reservation(reservations, tickets, u, s, seats,
                                                "PAY-1", tk, FALSE)
         IN /\ broadcast_seat_updates(r, pub) = r
            /\ broadcast_seat_updates(g, pub) = g
            /\ broadcast_seat_updates(c, pub) = c
            /\ broadcast_ticket_bookings(b, pub) = b
  /\ \A pub \in PublishOutcomes :
       LET swept == cleanup_expired_reservations(reservations, now)
       IN broadcast_cleanup_updates(swept, pub) = swept
  /\ \A u \in UserIds, ids \in ReservationIdSets, pub \in TicketRouterPublishOutcomes :
       \A tc \in Later(now) : \A tk \in Later(tc) : \A tn \in Later(tk) :
         \A tb \in Later(tn) :
           LET b == book_from_reservation(reservations, tickets, u, ids,
                                          now, tc, tk, tn, tb, FALSE)
               e == book_from_reservation_endpoint(reservations, tickets, u, ids,
                                                   now, tc, tk, tn, tb, FALSE, pub)
           IN /\ e.res = b.res
              /\ e.tix = b.tix
              /\ e.result = b.result

\* -------------------------------------------------------------------- C30
\* C30: a write depends on a check made under the same seat lock, so no
\* other writer acts on the slot between the check and the write: whenever
\* a cancel or a cleanup that has selected its rows commits, every row it
\* writes is still in the status (active) under which it was selected.
C30_CheckAndWriteUnderLock ==
  [][\A req \in inflight :
       req \notin inflight' =>
         \A i \in req.ids : reservations[i].status = "active"]_vars

\* -------------------------------------------------------------------- C31
\* C31: a request of reserve, extend or book locks all its seats, in
\* ascending seat-id order, before it validates any of them, and two requests
\* never wait for each other's seat locks.
C31_OrderedLocksNoDeadlock ==
  /\ \A t \in TxnIds :
       /\ \A i, j \in DOMAIN txns[t].order : i < j => txns[t].order[i] < txns[t].order[j]
       /\ txns[t].pc = "validate_seats" => txns[t].held = Len(txns[t].order)
  /\ \A t, o \in TxnIds : ~(WaitsFor(txns, t, o) /\ WaitsFor(txns, o, t))

\* -------------------------------------------------------------------- C32
\* C32: in every reachable state a reservation in status expired has an
\* expires_at that is not later than the clock: a cleanup that runs while an
\* extend succeeds does not leave the extended row expired with its new
\* expires_at still in the future.
C32_ExpiredIsPast ==
  \A i \in DOMAIN reservations :
    reservations[i].status = "expired" => reservations[i].expires_at <= now

\* -------------------------------------------------------------------- C33
\* Reservation rows in status booked for the screening, seat and user of a
\* ticket.
BookedRowsOf(tk) ==
  {i \in DOMAIN reservations :
     /\ reservations[i].status = "booked"
     /\ reservations[i].screening_id = tk.screening_id
     /\ reservations[i].seat_id = tk.seat_id
     /\ reservations[i].user_id = tk.user_id}

\* C33: in every reachable state each ticket has exactly one reservation in
\* status booked with its (screening, seat, user), and each reservation in
\* status booked has a ticket with its (screening, seat, user).
C33_TicketsMatchBookedRows ==
  /\ \A k \in DOMAIN tickets : Cardinality(BookedRowsOf(tickets[k])) = 1
  /\ \A i \in DOMAIN reservations :
       reservations[i].status = "booked" =>
         \E k \in DOMAIN tickets : i \in BookedRowsOf(tickets[k])

\* -------------------------------------------------------------------- C34
\* C34: of two concurrent book_tickets_from_reservation calls of one user
\* with the same payment reference and seats, the one that commits second
\* (its queries before the lock statement made before the first committed)
\* succeeds too, returns the tickets the first created and adds none.
C34_ConcurrentRetry ==
  \A u \in UserIds, s \in ScreeningIds, seats \in SeatRequests, k \in PaymentIds :
    \A t1 \in Later(now) : \A t2 \in Later(t1) :
      LET first == book_tickets_from_reservation(reservations, tickets, u, s, seats,
                                                 k, t1, FALSE)
          second == book_tickets_from_reservation_waiting(tickets, first.res, first.tix,
                                                          u, s, seats, k, t2, FALSE)
      IN first.result = "ok" =>
           /\ second.result = "ok"
           /\ second.ids = first.ids
           /\ second.tix = first.tix
           /\ second.res = first.res

\* -------------------------------------------------------------------- C35
\* C35: a cleanup that runs at the clock reading now leaves no reservation
\* active with expires_at <= now (a row whose expires_at equals now
\* included), and every active row is either selected by the cleanup or
\* counted as a blocking hold by reserve_seats at the same reading.
C35_CleanupReapsBoundary ==
  LET swept == cleanup_expired_reservations(reservations, now)
  IN /\ \A i \in DOMAIN swept :
          ~(swept[i].status = "active" /\ swept[i].expires_at <= now)
     /\ \A i \in DOMAIN reservations :
          reservations[i].status = "active" =>
            \/ i \in ExpiredActive(reservations, now)
            \/ \E u \in UserIds :
                 i \in OtherActive(reservations, u, reservations[i].screening_id,
                                   {reservations[i].seat_id}, now)

\* -------------------------------------------------------------------- C36
\* C36: after a get_seat_availability call for screening s the reservation
\* ledger holds no reservation of s that is active with expires_at in the
\* past, and the reservations of the other screenings are as they were.
C36_AvailabilitySweepsDurably ==
  [][\A s \in ScreeningIds, requester \in UserIds \cup {Anonymous} :
       GetAvailability(s, requester) =>
         /\ \A i \in DOMAIN reservations' :
              ~(/\ reservations'[i].screening_id = s
                /\ reservations'[i].status = "active"
                /\ reservations'[i].expires_at < now')
         /\ \A i \in DOMAIN reservations :
              reservations[i].screening_id # s => reservations'[i] = reservations[i]]_vars

\* -------------------------------------------------------------------- C37
\* C37: the availability view and reserve_seats agree.  For user u and the
\* bookable screening s, at one clock reading: when the view shows a seat as
\* available, reserve_seats(u, s, {seat}) called next succeeds; when it shows
\* the seat as booked or as reserved by another user, the call fails with a
\* conflict.
C37_ViewAndReserveAgree ==
  \A u \in UserIds, s \in ScreeningIds :
    LET av == get_seat_availability(reservations, tickets, s, u, now, now)
    IN \A x \in RoomSeats(s) :
         LET r == reserve_seats(reservations, tickets, u, s, {x}, now, now, now, now)
         IN /\ av[x].status = "available" => r.result = "ok"
            /\ av[x].status \in {"booked", "reserved"} => r.result \in ConflictResults

\* -------------------------------------------------------------------- C38
\* The screening of a request cannot be booked at the clock reading now.
UnbookableScreening(s) ==
  \/ s \notin ScreeningRows
  \/ Screening[s].coming_soon
  \/ Screening[s].screening_time < now

\* Some seat of the request is an existing seat of another room.
SeatOutsideRoom(s, seats) ==
  \E x \in seats \cap SeatIds : Seat[x].room_id # Screening[s].room_id

\* C38: reserve_seats reports the first precondition that fails, in the order
\* screening validity, seat and room membership, existing ticket, hold of
\* another user: a request on an unbookable screening fails on the screening;
\* otherwise a request with a seat of another room (all its seats existing)
\* is an invalid request whatever else is in conflict; otherwise a request
\* with a ticketed seat fails with already booked, also when another of its
\* seats is held by another user; otherwise a request with a seat held by
\* another user fails on that hold.
C38_PreconditionOrder ==
  \A u \in UserIds, s \in AnyScreenings, seats \in AnySeatLists :
    LET r == reserve_seats(reservations, tickets, u, s, seats, now, now, now, now)
        known == seats \subseteq SeatIds
        ticketed == \E x \in seats : Ticketed(s, x)
        held == \E x \in seats : HeldByOther(u, s, x)
    IN IF UnbookableScreening(s)
         THEN r.result \in {"not_found", "invalid_request"}
       ELSE IF ~known THEN r.result \in {"not_found", "invalid_request"}
       ELSE IF SeatOutsideRoom(s, seats) THEN r.result = "invalid_request"
       ELSE IF ticketed THEN r.result = "already_booked"
       ELSE IF held THEN r.result = "reserved_by_others"
       ELSE TRUE

\* -------------------------------------------------------------------- C39
\* C39: confirm_payment by the owner of a ticket turns a pending ticket
\* confirmed and changes nothing else; on a confirmed ticket it succeeds and
\* changes nothing; on a cancelled ticket it fails with a state conflict and
\* changes nothing; by another user it is refused and changes nothing; and a
\* ConfirmPayment step never touches the reservation ledger.
C39_ConfirmPayment ==
  /\ [](\A tid \in TicketRequestIds, u \in UserIds :
          LET r == confirm_payment(tickets, tid, u)
          IN IF tid \notin DOMAIN tickets
               THEN r.result = "not_found" /\ r.tix = tickets
             ELSE IF tickets[tid].user_id # u
               THEN r.result = "forbidden" /\ r.tix = tickets
             ELSE IF tickets[tid].status = "pending"
               THEN /\ r.result = "ok"
                    /\ r.tix = [tickets EXCEPT ![tid].status = "confirmed"]
             ELSE IF tickets[tid].status = "confirmed"
               THEN r.result = "ok" /\ r.tix = tickets
             ELSE /\ tickets[tid].status = "cancelled"
                  /\ r.result = "state_conflict"
                  /\ r.tix = tickets)
  /\ [][\A tid \in TicketRowIds, u \in UserIds :
          ConfirmPayment(tid, u) => reservations' = reservations]_vars

\* A cancelled ticket, whose confirmation is refused, next to a ticket that
\* was booked pending (no payment reference) and is now confirmed.
C39_Witness ==
  \E a, b \in DOMAIN tickets :
    /\ tickets[a].status = "cancelled"
    /\ confirm_payment(tickets, a, tickets[a].user_id).result = "state_conflict"
    /\ tickets[b].status = "confirmed"
    /\ tickets[b].payment_id = NoPayment

\* -------------------------------------------------------------------- C40
\* C40: the manager runs at most one cleanup loop at a time.  A
\* start_cleanup_task call made while a loop is running starts none; never
\* are two loops in their cleanup at the same time; and a loop that was
\* stopped starts no further cleanup.
C40_OneCleanupLoop ==
  /\ [](Cardinality({l \in LoopIds : reaper.loops[l].pc = "cleanup"}) <= 1)
  /\ [][\A l \in LoopIds :
          /\ (StartCleanupTask(l) /\ LiveLoops(reaper) # {}) =>
               reaper'.loops[l].pc = "done"
          /\ (reaper.loops[l].stopped /\ reaper.loops[l].pc = "sleeping") =>
               reaper'.loops[l].pc # "cleanup"]_vars

====
